---------------------------- MODULE Spec2Model ----------------------------
(***************************************************************************)
(* Model of the mudstuck template language: the Scanner (scanner.rs), the  *)
(* recursive-descent parser (template.rs) and the evaluator World::eval /  *)
(* World::apply / World::eval_str (lib.rs).                                *)
(*                                                                         *)
(* A character is a one-character string, a text (Rust String / &str) is a *)
(* sequence of characters.  Option::None of Scanner::current is the value  *)
(* None.  Ast, Value and Result values are records of one uniform shape    *)
(* each (a tag plus the payload fields, unused fields holding a default),  *)
(* so that any two of them can be compared.                                *)
(***************************************************************************)
EXTENDS Integers, Sequences, FiniteSets, TLC

VARIABLES txt, world, pc, parsed, res, prev, calls, ctx,
          scanner, frames, returned, nexts

vars == <<txt, world, pc, parsed, res, prev, calls, ctx, scanner, frames, returned, nexts>>

\* the variables of the step-by-step runs
stepvars == <<scanner, frames, returned, nexts>>

(***************************************************************************)
(* Characters                                                              *)
(***************************************************************************)
None == "None"

LowerCase ==
    {"a","b","c","d","e","f","g","h","i","j","k","l","m",
     "n","o","p","q","r","s","t","u","v","w","x","y","z"}

UpperCase ==
    {"A","B","C","D","E","F","G","H","I","J","K","L","M",
     "N","O","P","Q","R","S","T","U","V","W","X","Y","Z"}

Digit == {"0","1","2","3","4","5","6","7","8","9"}

\* (c >= 'a' && c <= 'z') || (c >= 'A' && c <= 'Z') || c == '_'
IsIdentStart(c) == c \in LowerCase \cup UpperCase \cup {"_"}

\* ... || c == '_' || c == '.' || (c >= '0' && c <= '9')
IsIdentPart(c) == c \in LowerCase \cup UpperCase \cup {"_", "."} \cup Digit

\* c == ' ' || c == '\r' || c == '\n' || c == '\t'
IsWs(c) == c \in {" ", "\r", "\n", "\t"}

(***************************************************************************)
(* Scanner (scanner.rs)                                                    *)
(***************************************************************************)
\* Scanner::new: chars = txt.chars(), pos = 1, current = chars.get(0).
\* Rust indexes from 0, TLA+ sequences from 1: chars.get(i) is chars[i+1].
ScannerNew(t) ==
    [chars |-> t, pos |-> 1, current |-> IF Len(t) > 0 THEN t[1] ELSE None]

\* faulty variant of ScannerNext: the else branch forgotten, the scanner
\* stays on the last character (C12 fails for it)
ScannerNext_sticky(s) ==
    IF s.pos < Len(s.chars)
    THEN [s EXCEPT !.current = s.chars[s.pos + 1], !.pos = s.pos + 1]
    ELSE s

ScannerNext(s) ==
    IF s.pos < Len(s.chars)
    THEN [s EXCEPT !.current = s.chars[s.pos + 1], !.pos = s.pos + 1]
    ELSE [s EXCEPT !.current = None]

Current(s) == s.current

RECURSIVE skip_ws(_)
skip_ws(s) ==
    IF Current(s) = None THEN s
    ELSE IF IsWs(Current(s)) THEN skip_ws(ScannerNext(s))
    ELSE s

(***************************************************************************)
(* Ast (template.rs).  kids holds the children: <<l, r>> of a Seq,         *)
(* <<f>> \o args of a Call.                                                *)
(***************************************************************************)
Empty == [tag |-> "Empty", s |-> <<>>, kids |-> <<>>]

Seq2(l, r) == [tag |-> "Seq", s |-> <<>>, kids |-> <<l, r>>]

Chr(c) == [tag |-> "Chr", s |-> <<c>>, kids |-> <<>>]

Str(s) == [tag |-> "Str", s |-> s, kids |-> <<>>]

Id(s) == [tag |-> "Id", s |-> s, kids |-> <<>>]

Call(f, args) == [tag |-> "Call", s |-> <<>>, kids |-> <<f>> \o args]

Callee(a) == a.kids[1]

Args(a) == Tail(a.kids)

(***************************************************************************)
(* Result<Ast, String> of the parser, with the scanner as it is left.      *)
(* A parse error is its message text, and for "unexpected character in     *)
(* expression: {}" the character formatted into it.                        *)
(***************************************************************************)
POk(a, s) == [ok |-> TRUE, ast |-> a, msg |-> "", ch |-> "", s |-> s]

PErr(m, c, s) == [ok |-> FALSE, ast |-> Empty, msg |-> m, ch |-> c, s |-> s]

RECURSIVE ident_loop(_, _)

\* variant of ident_loop: the end of the input inside an identifier is an
\* error (C10 as amended fails for it)
ident_loop_strict(s, ret) ==
    IF Current(s) = None THEN PErr("unexpected end of string in identifier", "", s)
    ELSE IF IsIdentPart(Current(s))
    THEN ident_loop(ScannerNext(s), Append(ret, Current(s)))
    ELSE POk(Id(ret), s)

\* the loop of parse_ident, lines 27-39
ident_loop(s, ret) ==
    IF Current(s) = None THEN POk(Id(ret), s)
    ELSE IF IsIdentPart(Current(s))
    THEN ident_loop(ScannerNext(s), Append(ret, Current(s)))
    ELSE POk(Id(ret), s)

parse_ident(s) ==
    IF Current(s) = None THEN PErr("identifier expected", "", s)
    ELSE IF IsIdentStart(Current(s))
    THEN ident_loop(ScannerNext(s), <<Current(s)>>)
    ELSE PErr("identifier expected", "", s)

RECURSIVE parse_string(_, _, _)
parse_string(quote, s, acc) ==
    IF Current(s) = None
    THEN PErr("unexpected end of string in string literal", "", s)
    ELSE IF Current(s) = quote THEN POk(Str(acc), ScannerNext(s))
    ELSE parse_string(quote, ScannerNext(s), Append(acc, Current(s)))

RECURSIVE parse_expr(_)
RECURSIVE call_loop(_, _, _)

\* faulty variant of call_loop: the end of the input closes the call (C9 as
\* amended fails for it)
call_loop_lenient(s, id, args) ==
    IF Current(s) = None THEN POk(Call(id, args), s)
    ELSE IF Current(s) = ")" THEN POk(Call(id, args), ScannerNext(s))
    ELSE LET a == parse_expr(s)
         IN  IF a.ok THEN call_loop(a.s, id, Append(args, a.ast)) ELSE a

\* variant of call_loop: whitespace is skipped at the head of every
\* iteration, so also before ')' (C16 fails for it)
call_loop_skipws(s, id, args) ==
    IF Current(skip_ws(s)) = None
    THEN PErr("unexpected end of string in call expression", "", skip_ws(s))
    ELSE IF Current(skip_ws(s)) = ")" THEN POk(Call(id, args), ScannerNext(skip_ws(s)))
    ELSE LET a == parse_expr(s)
         IN  IF a.ok THEN call_loop(a.s, id, Append(args, a.ast)) ELSE a

\* the loop of parse_call, lines 53-65
call_loop(s, id, args) ==
    IF Current(s) = None
    THEN PErr("unexpected end of string in call expression", "", s)
    ELSE IF Current(s) = ")" THEN POk(Call(id, args), ScannerNext(s))
    ELSE LET a == parse_expr(s)
         IN  IF a.ok THEN call_loop(a.s, id, Append(args, a.ast)) ELSE a

parse_call(s) ==
    LET r == parse_ident(skip_ws(s))
    IN  IF r.ok THEN call_loop(skip_ws(r.s), r.ast, <<>>) ELSE r

parse_expr(s0) ==
    LET s == skip_ws(s0)
        c == Current(s)
    IN  IF c = None THEN PErr("unexpected end of string in expression", "", s)
        ELSE IF c = "(" THEN parse_call(ScannerNext(s))
        ELSE IF c = "'" \/ c = "\"" THEN parse_string(c, ScannerNext(s), <<>>)
        ELSE IF IsIdentStart(c) THEN parse_ident(s)
        ELSE PErr("unexpected character in expression: ", c, s)

\* the inner loop of parse, lines 125-140: a run of characters up to the
\* next '#' or the end
\* faulty variant of literal_loop: acc.push(c) forgotten (C1 fails for it)
RECURSIVE literal_loop_nopush(_, _)
literal_loop_nopush(s, acc) ==
    IF Current(s) = None \/ Current(s) = "#" THEN [acc |-> acc, s |-> s]
    ELSE literal_loop_nopush(ScannerNext(s), acc)

RECURSIVE literal_loop(_, _)

\* faulty variant of literal_loop: a space ends the run too (C14 fails for
\* it)
literal_loop_word(s, acc) ==
    IF Current(s) = None \/ Current(s) = "#" \/ Current(s) = " "
    THEN [acc |-> acc, s |-> s]
    ELSE literal_loop(ScannerNext(s), Append(acc, Current(s)))

literal_loop(s, acc) ==
    IF Current(s) = None \/ Current(s) = "#" THEN [acc |-> acc, s |-> s]
    ELSE literal_loop(ScannerNext(s), Append(acc, Current(s)))

\* variant of parse_loop: a first expression is not wrapped in a Seq (C3 as
\* amended fails for it)
RECURSIVE parse_loop_bare(_, _)
parse_loop_bare(s, ret) ==
    IF Current(s) = None THEN POk(ret, s)
    ELSE IF Current(s) = "#"
    THEN LET a == parse_expr(ScannerNext(s))
         IN  IF a.ok
             THEN parse_loop_bare(a.s, IF ret = Empty THEN a.ast ELSE Seq2(ret, a.ast))
             ELSE a
    ELSE LET l == literal_loop(ScannerNext(s), <<Current(s)>>)
         IN  parse_loop_bare(l.s, Seq2(ret, Str(l.acc)))

\* the outer loop of parse, lines 112-143
RECURSIVE parse_loop(_, _)
parse_loop(s, ret) ==
    IF Current(s) = None THEN POk(ret, s)
    ELSE IF Current(s) = "#"
    THEN LET a == parse_expr(ScannerNext(s))
         IN  IF a.ok THEN parse_loop(a.s, Seq2(ret, a.ast)) ELSE a
    ELSE LET l == literal_loop(ScannerNext(s), <<Current(s)>>)
         IN  parse_loop(l.s, Seq2(ret, Str(l.acc)))

parse(t) == parse_loop(ScannerNew(t), Empty)


(***************************************************************************)
(* World, Entity, Attribute (types.rs).  An attribute is its kind and, for *)
(* Lockable and Closable, its boolean payload; the payloads of Doorlike,   *)
(* Roomlike and Characterlike are never read by the evaluator and are      *)
(* left out (b is FALSE).  An entity id (Uuid) is an opaque string.        *)
(***************************************************************************)
Attribute(kind, b) == [kind |-> kind, b |-> b]

Entity(id, name, attributes) ==
    [id |-> id, name |-> name, attributes |-> attributes]

\* lines 66-69 of make_example_world: map.insert(e.id, i) for each entity in
\* order, a later insert under the same id replacing the earlier one.
\* Positions are Rust's, from 0.
EntityMap(entities) ==
    [u \in {entities[i].id : i \in DOMAIN entities} |->
        (CHOOSE i \in DOMAIN entities :
            /\ entities[i].id = u
            /\ \A j \in DOMAIN entities : entities[j].id = u => j <= i) - 1]

World(entities) == [entities |-> entities, entity_map |-> EntityMap(entities)]

NoEntity == Entity("none", <<>>, <<>>)

NoId == "none"

\* World::entity: entity_map.get(name).and_then(|idx| entities.get(*idx))
entity(w, name) ==
    IF name \in DOMAIN w.entity_map
    THEN LET idx == w.entity_map[name]
         IN  IF idx + 1 \in DOMAIN w.entities THEN w.entities[idx + 1]
             ELSE NoEntity
    ELSE NoEntity

\* World::get_by_name: the loop runs over every entity and overwrites res at
\* each match
RECURSIVE get_by_name_loop(_, _, _, _)
get_by_name_loop(w, name, i, r) ==
    IF i > Len(w.entities) THEN r
    ELSE get_by_name_loop(w, name, i + 1,
            IF w.entities[i].name = name THEN w.entities[i].id ELSE r)

get_by_name(w, name) == get_by_name_loop(w, name, 1, NoId)

\* World::from_script_name: s.split('.'), every piece kept (also empty ones)
RECURSIVE split_loop(_, _, _, _)
split_loop(s, i, cur, out) ==
    IF i > Len(s) THEN Append(out, cur)
    ELSE IF s[i] = "." THEN split_loop(s, i + 1, <<>>, Append(out, cur))
    ELSE split_loop(s, i + 1, Append(cur, s[i]), out)

from_script_name(s) == split_loop(s, 1, <<>>, <<>>)

(***************************************************************************)
(* Value and Function (lib.rs 253-267)                                     *)
(***************************************************************************)
NoVal ==
    [tag |-> "None", s |-> <<>>, b |-> FALSE, id |-> NoId, fun |-> "",
     name |-> "", special |-> FALSE, min_args |-> 0, max_args |-> 0,
     ast |-> Empty]

VStr(s) == [NoVal EXCEPT !.tag = "Str", !.s = s]

VBool(b) == [NoVal EXCEPT !.tag = "Bool", !.b = b]

VReference(id) == [NoVal EXCEPT !.tag = "Reference", !.id = id]

VFun(fun, name, special, min_args, max_args) ==
    [NoVal EXCEPT !.tag = "Fun", !.fun = fun, !.name = name,
                  !.special = special, !.min_args = min_args,
                  !.max_args = max_args]

VExpr(a) == [NoVal EXCEPT !.tag = "Expr", !.ast = a]

(***************************************************************************)
(* Result<Value, String> of eval and apply.  An error is its message with  *)
(* the values formatted into it: the function name, the identifier token,  *)
(* the violated bound and the argument count, the offending value.         *)
(* log lists, in order, the Ast of every call of eval made on the way.     *)
(***************************************************************************)
NoErr == [msg |-> "", name |-> "", tok |-> <<>>, bound |-> 0, cnt |-> 0,
          val |-> NoVal]

Error(msg) == [NoErr EXCEPT !.msg = msg]

Ok(v, log) == [ok |-> TRUE, val |-> v, err |-> NoErr, log |-> log]

Err(e, log) == [ok |-> FALSE, val |-> NoVal, err |-> e, log |-> log]

W_if == <<"i", "f">>

W_closed == <<"c", "l", "o", "s", "e", "d">>

W_locked == <<"l", "o", "c", "k", "e", "d">>

\* the builtin table, lib.rs 146-148
FunIf == VFun("If", "if", TRUE, 3, 3)

FunClosed == VFun("Closed", "closed", FALSE, 1, 1)

FunLocked == VFun("Locked", "locked", FALSE, 1, 1)

\* ent.attributes.iter().find(|a| kind matches): the first attribute of the
\* kind, by position
HasAttr(ent, kind) == \E i \in DOMAIN ent.attributes : ent.attributes[i].kind = kind

\* faulty variant of FindAttr: the last attribute of the kind (C5 fails for
\* it)
FindAttr_last(ent, kind) ==
    ent.attributes[CHOOSE i \in DOMAIN ent.attributes :
        /\ ent.attributes[i].kind = kind
        /\ \A j \in DOMAIN ent.attributes : ent.attributes[j].kind = kind => j <= i]

FindAttr(ent, kind) ==
    ent.attributes[CHOOSE i \in DOMAIN ent.attributes :
        /\ ent.attributes[i].kind = kind
        /\ \A j \in 1..(i - 1) : ent.attributes[j].kind # kind]

\* the arms Function::Closed and Function::Locked of apply (kind is
\* "Closable" resp. "Lockable"); self.entity(name).unwrap() panics on None
apply_attr(w, args, kind, msg) ==
    IF Len(args) >= 1 /\ args[1].tag = "Reference"
    THEN LET ent == entity(w, args[1].id)
         IN  IF ent = NoEntity
             THEN Err(Error("panic: called Option::unwrap() on a None value"), <<>>)
             ELSE IF HasAttr(ent, kind)
             THEN Ok(VBool(FindAttr(ent, kind).b), <<>>)
             ELSE Ok(VBool(FALSE), <<>>)
    ELSE Err(Error(msg), <<>>)

RECURSIVE eval(_, _)
RECURSIVE eval_list(_, _)
RECURSIVE apply(_, _, _)

\* World::eval_list: the values of args in order, or the first error
eval_list(w, args) ==
    IF args = <<>> THEN [ok |-> TRUE, vals |-> <<>>, err |-> NoErr, log |-> <<>>]
    ELSE LET ar == eval(w, Head(args))
         IN  IF ~ar.ok
             THEN [ok |-> FALSE, vals |-> <<>>, err |-> ar.err, log |-> ar.log]
             ELSE LET rest == eval_list(w, Tail(args))
                  IN  [ok |-> rest.ok,
                       vals |-> IF rest.ok THEN <<ar.val>> \o rest.vals ELSE <<>>,
                       err |-> rest.err,
                       log |-> ar.log \o rest.log]

\* the arm Function::If of apply, lib.rs 197-216
apply_if(w, args) ==
    IF args[1].tag = "Expr"
    THEN LET cval == eval(w, args[1].ast)
         IN  IF ~cval.ok THEN cval
             ELSE IF cval.val.tag = "Bool"
             THEN LET e == IF cval.val.b THEN args[2] ELSE args[3]
                  IN  IF e.tag = "Expr"
                      THEN LET r == eval(w, e.ast)
                           IN  [r EXCEPT !.log = cval.log \o r.log]
                      ELSE Err(Error("internal error, if expression already evaluated"),
                               cval.log)
             ELSE Err(Error("if expects boolean expression as first argument"),
                      cval.log)
    ELSE Err(Error("internal error, if condition already evaluated"), <<>>)

\* World::apply
apply(w, f, args) ==
    IF f.tag = "Fun"
    THEN CASE f.fun = "If" -> apply_if(w, args)
           [] f.fun = "Closed" ->
                apply_attr(w, args, "Closable",
                           "function closed requires a name of an entity")
           [] f.fun = "Locked" ->
                apply_attr(w, args, "Lockable",
                           "function locked requires a name of an entity")
    ELSE Err(Error("non-function in function position"), <<>>)

\* the arm Ast::Id of eval
eval_id(w, s) ==
    IF s = W_if THEN Ok(FunIf, <<>>)
    ELSE IF s = W_closed THEN Ok(FunClosed, <<>>)
    ELSE IF s = W_locked THEN Ok(FunLocked, <<>>)
    ELSE LET name == get_by_name(w, from_script_name(s))
         IN  IF name = NoId
             THEN Err([Error("undefined identifier: ") EXCEPT !.tok = s], <<>>)
             ELSE Ok(VReference(name), <<>>)

\* faulty variant of concat: an operand that is no string counts as the
\* empty text (C7 fails for it)
concat_coerce(lhs, rhs, log) ==
    Ok(VStr((IF lhs.tag = "Str" THEN lhs.s ELSE <<>>)
            \o (IF rhs.tag = "Str" THEN rhs.s ELSE <<>>)), log)

\* the match (lhs, rhs) of the arm Ast::Seq, lib.rs 161-165
concat(lhs, rhs, log) ==
    IF lhs.tag = "Str" /\ rhs.tag = "Str" THEN Ok(VStr(lhs.s \o rhs.s), log)
    ELSE Err(Error("invalid operand for concatenation"), log)

\* faulty variant of eval_seq: the right side is evaluated first (C13 fails
\* for it)
eval_seq_rtl(w, l, r) ==
    LET rhs == eval(w, r)
    IN  IF ~rhs.ok THEN rhs
        ELSE LET lhs == eval(w, l)
             IN  IF ~lhs.ok THEN [lhs EXCEPT !.log = rhs.log \o lhs.log]
                 ELSE concat(lhs.val, rhs.val, rhs.log \o lhs.log)

\* the arm Ast::Seq of eval
eval_seq(w, l, r) ==
    LET lhs == eval(w, l)
    IN  IF ~lhs.ok THEN lhs
        ELSE LET rhs == eval(w, r)
             IN  IF ~rhs.ok THEN [rhs EXCEPT !.log = lhs.log \o rhs.log]
                 ELSE concat(lhs.val, rhs.val, lhs.log \o rhs.log)

\* faulty variant of IsSpecial: `if` treated as an eager function (C2 fails
\* for it)
IsSpecial_never(fun) == FALSE

\* faulty variant of IsSpecial: every function gets its arguments
\* unevaluated (C15 fails for it)
IsSpecial_always(fun) == TRUE

\* whether the callee is a special form: its arguments are handed over
\* unevaluated (the flag of the builtin table, read at lib.rs 178)
IsSpecial(fun) == fun.special

\* faulty variant of TooMany: the max-arity check left out (C6 fails for it)
TooMany_unchecked(fun, acnt) == FALSE

\* if acnt < min_args, lib.rs 172, and if acnt > max_args, lib.rs 175
TooFew(fun, acnt) == acnt < fun.min_args

TooMany(fun, acnt) == acnt > fun.max_args

\* the arm Ast::Call of eval
eval_call(w, f, args) ==
    LET fun == eval(w, f)
    IN  IF ~fun.ok THEN fun
        ELSE IF fun.val.tag = "Fun"
        THEN LET acnt == Len(args)
             IN  IF TooFew(fun.val, acnt)
                 THEN Err([Error("function {} requires at least {} arguments, got {}")
                              EXCEPT !.name = fun.val.name,
                                     !.bound = fun.val.min_args, !.cnt = acnt],
                          fun.log)
                 ELSE IF TooMany(fun.val, acnt)
                 THEN Err([Error("function {} requires at most {} arguments, got {}")
                              EXCEPT !.name = fun.val.name,
                                     !.bound = fun.val.max_args, !.cnt = acnt],
                          fun.log)
                 ELSE IF IsSpecial(fun.val)
                 THEN LET r == apply(w, fun.val, [i \in DOMAIN args |-> VExpr(args[i])])
                      IN  [r EXCEPT !.log = fun.log \o r.log]
                 ELSE LET al == eval_list(w, args)
                      IN  IF ~al.ok THEN Err(al.err, fun.log \o al.log)
                          ELSE LET r == apply(w, fun.val, al.vals)
                               IN  [r EXCEPT !.log = fun.log \o al.log \o r.log]
        ELSE Err(Error("non-function in function position"), fun.log)

\* World::eval
eval(w, ast) ==
    LET r == CASE ast.tag = "Empty" -> Ok(VStr(<<>>), <<>>)
               [] ast.tag = "Chr" -> Ok(VStr(ast.s), <<>>)
               [] ast.tag = "Str" -> Ok(VStr(ast.s), <<>>)
               [] ast.tag = "Id" -> eval_id(w, ast.s)
               [] ast.tag = "Seq" -> eval_seq(w, ast.kids[1], ast.kids[2])
               [] ast.tag = "Call" -> eval_call(w, Callee(ast), Args(ast))
    IN  [r EXCEPT !.log = <<ast>> \o r.log]

(***************************************************************************)
(* Result<String, String> of World::eval_str                               *)
(***************************************************************************)
NoRes == [ok |-> FALSE, s |-> <<>>, phase |-> "none", msg |-> "", ch |-> "",
          err |-> NoErr]

SOk(s) == [NoRes EXCEPT !.ok = TRUE, !.phase = "eval", !.s = s]

\* Err(e) of the parser handed on (lib.rs 102)
SParseErr(p) == [NoRes EXCEPT !.phase = "parse", !.msg = p.msg, !.ch = p.ch]

\* Err(e) of eval handed on, or the "invalid value: {:?}" of lib.rs 99
SEvalErr(e) == [NoRes EXCEPT !.phase = "eval", !.msg = e.msg, !.err = e]

\* the match on self.eval(ast), lib.rs 96-100
eval_result(w, ast) ==
    LET r == eval(w, ast)
    IN  IF ~r.ok THEN SEvalErr(r.err)
        ELSE IF r.val.tag = "Str" THEN SOk(r.val.s)
        ELSE SEvalErr([Error("invalid value: ") EXCEPT !.val = r.val])

\* World::eval_str
eval_str(w, t) ==
    LET p == parse(t)
    IN  IF p.ok THEN eval_result(w, p.ast) ELSE SParseErr(p)

(***************************************************************************)
(* Inputs.  Bounds of the model.                                           *)
(***************************************************************************)
\* characters of a free-form text
MaxSoup == 3

\* arguments of a generated call
MaxArgs == 4

\* the largest max-arity of the builtin table (that of `if`)
MaxBuiltinArity == 3

\* segments (literal runs and '#' expressions) of a generated template
MaxSegs == 2

\* attributes of an entity
MaxAttrs == 2

\* entities of a world
MaxEntities == 2

\* calls of eval_str on the same text and world
MaxCalls == 2

\* calls of Scanner::next after the end of the input is reached
MaxPast == 2

SeqsUpTo(S, n) == UNION {[1..k -> S] : k \in 0..n}

W_ab == <<"a", ".", "b">>

W_c == <<"c">>

W_x == <<"x">>

W_y == <<"y">>

\* name paths as from_script_name yields them
N_ab == <<<<"a">>, <<"b">>>>

N_c == <<<<"c">>>>

Ids == <<"u1", "u2", "u3", "u4">>

\* the entities get distinct ids, by position
WithIds(shapes) ==
    [i \in DOMAIN shapes |-> Entity(Ids[i], shapes[i].name, shapes[i].attributes)]

Shape(name, attributes) == [name |-> name, attributes |-> attributes]

AttrAlphabet ==
    {Attribute("Closable", TRUE), Attribute("Closable", FALSE),
     Attribute("Lockable", TRUE), Attribute("Lockable", FALSE),
     Attribute("Doorlike", FALSE)}

\* the door of make_example_world (lib.rs 32-36), closed and not locked,
\* and the same door open and locked
DoorClosed ==
    Shape(N_ab, <<Attribute("Doorlike", FALSE), Attribute("Closable", TRUE),
                  Attribute("Lockable", FALSE)>>)

DoorOpen ==
    Shape(N_ab, <<Attribute("Doorlike", FALSE), Attribute("Closable", FALSE),
                  Attribute("Lockable", TRUE)>>)

Room == Shape(N_c, <<Attribute("Roomlike", FALSE)>>)

ExampleWorld == World(WithIds(<<DoorClosed, Room>>))

BaseWorlds == {ExampleWorld, World(WithIds(<<DoorOpen, Room>>))}

\* worlds of one entity a.b with any attribute list, followed by the room
AttrWorlds ==
    {World(WithIds(<<Shape(N_ab, al), Room>>)) : al \in SeqsUpTo(AttrAlphabet, MaxAttrs)}

\* worlds of up to MaxEntities entities, name paths shared or not
NameShapes ==
    {Shape(n, al) : n \in {N_ab, N_c},
                    al \in {<<Attribute("Closable", TRUE)>>,
                            <<Attribute("Closable", FALSE), Attribute("Lockable", TRUE)>>}}

NameWorlds == {World(WithIds(sh)) : sh \in SeqsUpTo(NameShapes, MaxEntities)}

Worlds == AttrWorlds \cup NameWorlds

(***************************************************************************)
(* Template texts are written out from generated Asts, following the       *)
(* grammar: '#' before an expression, a call as '(' callee, a space before *)
(* each argument, ')'.  Every character is paired with the syntactic       *)
(* context the text is in once the character is read: the number of calls  *)
(* open, whether a string literal is open, and for the innermost open call *)
(* whether its callee has begun and how many arguments have begun.         *)
(***************************************************************************)
Cx(depth, instr, callee, nargs) ==
    [depth |-> depth, instr |-> instr, callee |-> callee, nargs |-> nargs]

TopCx == Cx(0, FALSE, FALSE, 0)

\* the context of a text that was not written out from an Ast
NoCx == Cx(-1, FALSE, FALSE, 0)

Mark(s, cx) == [i \in DOMAIN s |-> [ch |-> s[i], cx |-> cx]]

QuoteFor(s) == IF \E i \in DOMAIN s : s[i] = "'" THEN "\"" ELSE "'"

RECURSIVE WriteExpr(_, _)
RECURSIVE WriteArgs(_, _, _)
WriteArgs(args, i, depth) ==
    IF i > Len(args) THEN <<>>
    ELSE Mark(<<" ">>, Cx(depth, FALSE, TRUE, i - 1))
         \o WriteExpr(args[i], Cx(depth, FALSE, TRUE, i))
         \o WriteArgs(args, i + 1, depth)

WriteExpr(e, out) ==
    CASE e.tag = "Id" -> Mark(e.s, out)
      [] e.tag = "Str" ->
            Mark(<<QuoteFor(e.s)>> \o e.s, [out EXCEPT !.instr = TRUE])
            \o Mark(<<QuoteFor(e.s)>>, out)
      [] e.tag = "Call" ->
            Mark(<<"(">>, Cx(out.depth + 1, FALSE, FALSE, 0))
            \o Mark(Callee(e).s, Cx(out.depth + 1, FALSE, TRUE, 0))
            \o WriteArgs(Args(e), 1, out.depth + 1)
            \o Mark(<<")">>, out)

\* a segment is a literal run (an Ast Str) or an expression
Lit(s) == [lit |-> TRUE, e |-> Str(s)]

Expr(e) == [lit |-> FALSE, e |-> e]

WriteSeg(g) ==
    IF g.lit THEN Mark(g.e.s, TopCx)
    ELSE Mark(<<"#">>, TopCx) \o WriteExpr(g.e, TopCx)

RECURSIVE WriteSegs(_)
WriteSegs(gs) == IF gs = <<>> THEN <<>> ELSE WriteSeg(Head(gs)) \o WriteSegs(Tail(gs))

Chars(m) == [i \in DOMAIN m |-> m[i].ch]

Prefix(m, k) == SubSeq(m, 1, k)

LastCx(m) == IF m = <<>> THEN TopCx ELSE m[Len(m)].cx

\* an input: the text and the context it ends in
Input(m) == [txt |-> Chars(m), ctx |-> LastCx(m)]

Plain(t) == [txt |-> t, ctx |-> NoCx]

\* free-form texts
SoupChars == {"#", "(", ")", " ", "'", "c"}

SoupTexts == {Plain(t) : t \in SeqsUpTo(SoupChars, MaxSoup)}

\* calls: every callee over every argument list
ArgExprs ==
    {Id(W_ab), Id(W_x), Id(W_closed), Str(W_y),
     Call(Id(W_closed), <<Id(W_ab)>>), Call(Id(W_closed), <<>>)}

Callees == {Id(W_if), Id(W_closed), Id(W_locked), Id(W_ab), Id(W_x)}

\* every argument list a builtin can accept, and longer ones (which no
\* builtin accepts) over fewer expressions
ArgLists ==
    SeqsUpTo(ArgExprs, MaxBuiltinArity)
    \cup UNION {[1..k -> {Id(W_x), Str(W_y)}] : k \in (MaxBuiltinArity + 1)..MaxArgs}

Calls == {Call(f, args) : f \in Callees, args \in ArgLists}

CallTexts == {Input(WriteSegs(<<Expr(e)>>)) : e \in Calls}

\* templates of several segments, and every prefix of them
IfDoor ==
    Call(Id(W_if), <<Call(Id(W_closed), <<Id(W_ab)>>), Str(W_y), Id(W_x)>>)

Segs ==
    {Lit(<<"t">>), Lit(<<" ">>), Expr(Id(W_ab)), Expr(Str(W_y)), Expr(Id(W_x)),
     Expr(Call(Id(W_locked), <<Id(W_ab)>>)), Expr(IfDoor)}

Templates == {WriteSegs(gs) : gs \in SeqsUpTo(Segs, MaxSegs)}

TemplateTexts == {Input(m) : m \in Templates}

\* calls written out to be cut
CutCalls ==
    {WriteSegs(<<Expr(Call(Id(W_closed), args))>>) :
        args \in SeqsUpTo({Id(W_ab), Str(<<"y", " ">>), Call(Id(W_locked), <<>>)},
                          MaxArgs - 1)}

CutTexts ==
    UNION {{Input(Prefix(m, k)) : k \in 0..Len(m)} : m \in Templates \cup CutCalls}

\* calls written out with whitespace at will: lead between '(' and the
\* callee, gap before every argument, trail before ')'
MaxWsArgs == 2

WsRuns == {<<" ">>, <<"\t">>, <<"\r", "\n">>}

RECURSIVE WriteWsArgs(_, _)
WriteWsArgs(args, gap) ==
    IF args = <<>> THEN <<>>
    ELSE gap \o Chars(WriteExpr(Head(args), TopCx)) \o WriteWsArgs(Tail(args), gap)

WriteWsCall(f, args, lead, gap, trail) ==
    <<"#", "(">> \o lead \o f \o WriteWsArgs(args, gap) \o trail \o <<")">>

WsTable ==
    {[txt |-> WriteWsCall(W_closed, args, lead, gap, trail),
      call |-> Call(Id(W_closed), args), lead |-> lead, trail |-> trail] :
        args \in SeqsUpTo({Id(W_ab), Str(W_y), Call(Id(W_locked), <<Id(W_ab)>>)}, MaxWsArgs),
        lead \in {<<>>, <<" ">>, <<"\n", "\t">>},
        gap \in WsRuns,
        trail \in {<<>>} \cup WsRuns}

WsTexts == {Plain(e.txt) : e \in WsTable}

\* texts rendered against every world
QueryTexts ==
    {Plain(<<>>), Plain(<<"a", ".", "b", " ", "(", "'">>)} \cup
    {Input(WriteSegs(<<Expr(e)>>)) :
        e \in {Id(W_ab), Id(W_c),
               Call(Id(W_closed), <<Id(W_ab)>>), Call(Id(W_locked), <<Id(W_ab)>>),
               Call(Id(W_closed), <<Id(W_c)>>),
               Call(Id(W_if), <<Call(Id(W_closed), <<Id(W_ab)>>), Str(W_y), Str(<<"n">>)>>),
               Call(Id(W_if), <<Call(Id(W_locked), <<Id(W_ab)>>), Str(W_y), Str(<<"n">>)>>)}}

(***************************************************************************)
(* The state machine: eval_str called on a text and a world, by a host     *)
(* that may call it again (PlayerState::look and ::describe render the     *)
(* descriptions of an entity on every command).                            *)
(***************************************************************************)
NoParse == [ok |-> FALSE, ast |-> Empty, msg |-> "", ch |-> ""]

\* a frame of the call stack of a step-by-step run: the function, the place
\* in it, and its locals (set by the steps that use them)
Frame(fn, lbl) ==
    [fn |-> fn, lbl |-> lbl, acc |-> <<>>, ast |-> Empty, args |-> <<>>,
     quote |-> "", val |-> NoVal, vals |-> <<>>, start |-> 0, mark |-> -1]

\* what the function that returned last has returned: p from a function of
\* the parser, v (and vals, from eval_list) from one of the evaluator
NoRet ==
    [set |-> FALSE, fn |-> "", start |-> 0, p |-> NoParse,
     v |-> Ok(NoVal, <<>>), vals |-> <<>>]

\* no step-by-step run is under way
Idle ==
    /\ scanner = ScannerNew(<<>>)
    /\ frames = <<>>
    /\ returned = NoRet
    /\ nexts = 0

Init ==
    /\ \E in \in SoupTexts \cup CutTexts \cup TemplateTexts \cup CallTexts \cup QueryTexts
                  \cup WsTexts :
          /\ txt = in.txt
          /\ ctx = in.ctx
          /\ \/ world = ExampleWorld
             \/ in \in TemplateTexts \cup CallTexts /\ world \in BaseWorlds
             \/ in \in QueryTexts /\ world \in Worlds
    /\ pc = "start"
    /\ parsed = NoParse
    /\ res = NoRes
    /\ prev = NoRes
    /\ calls = 1
    /\ Idle

\* faulty variant of SelfAfter: a receiver &mut self that drops the first
\* entity (C8 fails for it)
SelfAfter_pop(w) == IF w.entities = <<>> THEN w ELSE World(Tail(w.entities))

\* the receiver of eval_str, eval and apply is &self: the world after the
\* call is the world before it
SelfAfter(w) == w

\* template::parse(txt), lib.rs 94, and the arm Err(e) => Err(e), lib.rs 102
Parse ==
    /\ pc = "start"
    /\ LET p == parse(txt)
       IN  /\ parsed' = [ok |-> p.ok, ast |-> p.ast, msg |-> p.msg, ch |-> p.ch]
           /\ pc' = IF p.ok THEN "parsed" ELSE "done"
           /\ res' = IF p.ok THEN res ELSE SParseErr(p)
    /\ world' = SelfAfter(world)
    /\ UNCHANGED <<txt, prev, calls, ctx>>
    /\ UNCHANGED stepvars

\* self.eval(ast) and the match on its result, lib.rs 96-100
Evaluate ==
    /\ pc = "parsed"
    /\ res' = eval_result(world, parsed.ast)
    /\ pc' = "done"
    /\ world' = SelfAfter(world)
    /\ UNCHANGED <<txt, parsed, prev, calls, ctx>>
    /\ UNCHANGED stepvars

\* the host calls eval_str again on the same text
Again ==
    /\ pc = "done"
    /\ calls < MaxCalls
    /\ prev' = res
    /\ calls' = calls + 1
    /\ pc' = "start"
    /\ parsed' = NoParse
    /\ res' = NoRes
    /\ UNCHANGED <<txt, world, ctx>>
    /\ UNCHANGED stepvars

Next == Parse \/ Evaluate \/ Again

Spec == Init /\ [][Next]_vars

(***************************************************************************)
(* The same rendering, step by step.  The call stack is explicit: frames   *)
(* holds one frame per function that is running, the innermost last.  A    *)
(* step is one iteration of a loop, or the code between two calls.  A call *)
(* pushes the frame of the callee; a return pops it and leaves the result  *)
(* in returned, which the caller takes up in its next step (try! hands an  *)
(* Err on at once).  mark is the offset of the scanner at which the        *)
(* running iteration of the frame's loop began, start the offset at which  *)
(* parse_expr was entered.                                                 *)
(***************************************************************************)
\* the number of characters the scanner has gone past
Offset(s) == IF Current(s) = None THEN Len(s.chars) ELSE s.pos - 1

Top == frames[Len(frames)]

Pop == SubSeq(frames, 1, Len(frames) - 1)

SetTop(f) == [frames EXCEPT ![Len(frames)] = f]

Push(f, g) == Append(SetTop(f), g)

RetP(fn, p) ==
    [NoRet EXCEPT !.set = TRUE, !.fn = fn,
                  !.p = [ok |-> p.ok, ast |-> p.ast, msg |-> p.msg, ch |-> p.ch]]

RetUnit(fn) == [NoRet EXCEPT !.set = TRUE, !.fn = fn]

RetV(fn, v) == [NoRet EXCEPT !.set = TRUE, !.fn = fn, !.v = [v EXCEPT !.log = <<>>]]

\* the function of the top frame returns r
Return(r) == frames' = Pop /\ returned' = r

\* try!: the Err of the callee is returned by the caller
Propagate == Return([returned EXCEPT !.fn = Top.fn])

Running(phase, fn) == pc = phase /\ frames # <<>> /\ Top.fn = fn

\* s.next() of a step-by-step run
Advance == scanner' = ScannerNext(scanner) /\ nexts' = nexts + 1

Stay == UNCHANGED <<scanner, nexts>>

Fixed == UNCHANGED <<txt, world, parsed, res, prev, calls, ctx>>

\* eval_str calls template::parse(txt): Scanner::new and ret = Ast::Empty
StartParse ==
    /\ pc = "start"
    /\ pc' = "parsing"
    /\ scanner' = ScannerNew(txt)
    /\ nexts' = 0
    /\ frames' = <<Frame("parse", "loop")>>
    /\ returned' = NoRet
    /\ Fixed

\* faulty variant of SkipWsStep: s.next() forgotten (C11 fails for it)
SkipWsStep_stuck ==
    /\ Running("parsing", "skip_ws")
    /\ Stay
    /\ IF Current(scanner) # None /\ IsWs(Current(scanner))
       THEN /\ frames' = SetTop([Top EXCEPT !.mark = Offset(scanner)])
            /\ returned' = returned
       ELSE Return(RetUnit("skip_ws"))
    /\ UNCHANGED pc
    /\ Fixed

\* skip_ws, scanner.rs 51-63: one iteration of its loop
SkipWsStep ==
    /\ Running("parsing", "skip_ws")
    /\ IF Current(scanner) # None /\ IsWs(Current(scanner))
       THEN /\ Advance
            /\ frames' = SetTop([Top EXCEPT !.mark = Offset(scanner)])
            /\ returned' = returned
       ELSE Stay /\ Return(RetUnit("skip_ws"))
    /\ UNCHANGED pc
    /\ Fixed

\* parse_ident: the match on the first character, and one iteration of the
\* loop of lines 27-39
IdentStep ==
    /\ Running("parsing", "parse_ident")
    /\ LET c == Current(scanner)
       IN  IF Top.lbl = "start"
           THEN IF c # None /\ IsIdentStart(c)
                THEN /\ Advance
                     /\ frames' = SetTop([Top EXCEPT !.lbl = "loop", !.acc = <<c>>])
                     /\ returned' = returned
                ELSE Stay /\ Return(RetP("parse_ident", PErr("identifier expected", "", scanner)))
           ELSE IF c # None /\ IsIdentPart(c)
                THEN /\ Advance
                     /\ frames' = SetTop([Top EXCEPT !.acc = Append(Top.acc, c),
                                                     !.mark = Offset(scanner)])
                     /\ returned' = returned
                ELSE Stay /\ Return(RetP("parse_ident", POk(Id(Top.acc), scanner)))
    /\ UNCHANGED pc
    /\ Fixed

\* parse_string: one iteration of its loop
StringStep ==
    /\ Running("parsing", "parse_string")
    /\ LET c == Current(scanner)
       IN  IF c = None
           THEN /\ Stay
                /\ Return(RetP("parse_string",
                               PErr("unexpected end of string in string literal", "", scanner)))
           ELSE IF c = Top.quote
           THEN Advance /\ Return(RetP("parse_string", POk(Str(Top.acc), scanner)))
           ELSE /\ Advance
                /\ frames' = SetTop([Top EXCEPT !.acc = Append(Top.acc, c),
                                                !.mark = Offset(scanner)])
                /\ returned' = returned
    /\ UNCHANGED pc
    /\ Fixed

\* parse_expr: skip_ws(s), then the match on the current character, then
\* the return of what the function called returns
ExprStep ==
    /\ Running("parsing", "parse_expr")
    /\ LET c == Current(scanner)
       IN  CASE Top.lbl = "start" ->
                  /\ Stay
                  /\ frames' = Push([Top EXCEPT !.lbl = "match"], Frame("skip_ws", "loop"))
                  /\ returned' = NoRet
             [] Top.lbl = "match" ->
                  IF c = None
                  THEN /\ Stay
                       /\ Return(RetP("parse_expr",
                                      PErr("unexpected end of string in expression", "", scanner)))
                  ELSE IF c = "("
                  THEN /\ Advance
                       /\ frames' = Push([Top EXCEPT !.lbl = "ret"], Frame("parse_call", "start"))
                       /\ returned' = NoRet
                  ELSE IF c = "'" \/ c = "\""
                  THEN /\ Advance
                       /\ frames' = Push([Top EXCEPT !.lbl = "ret"],
                                         [Frame("parse_string", "loop") EXCEPT !.quote = c])
                       /\ returned' = NoRet
                  ELSE IF IsIdentStart(c)
                  THEN /\ Stay
                       /\ frames' = Push([Top EXCEPT !.lbl = "ret"], Frame("parse_ident", "start"))
                       /\ returned' = NoRet
                  ELSE /\ Stay
                       /\ Return(RetP("parse_expr",
                                      PErr("unexpected character in expression: ", c, scanner)))
             [] Top.lbl = "ret" ->
                  /\ Stay
                  /\ Return([returned EXCEPT !.fn = "parse_expr", !.start = Top.start])
    /\ UNCHANGED pc
    /\ Fixed

\* a call of parse_expr(s)
ExprFrame == [Frame("parse_expr", "start") EXCEPT !.start = Offset(scanner)]

\* parse_call: skip_ws, parse_ident, skip_ws, and the loop of lines 53-65,
\* of which one iteration is the step at "loop" and, when it calls
\* parse_expr, the step at "arg" that takes the argument up
CallStep ==
    /\ Running("parsing", "parse_call")
    /\ Stay
    /\ LET c == Current(scanner)
       IN  CASE Top.lbl = "start" ->
                  /\ frames' = Push([Top EXCEPT !.lbl = "ident"], Frame("skip_ws", "loop"))
                  /\ returned' = NoRet
             [] Top.lbl = "ident" ->
                  /\ frames' = Push([Top EXCEPT !.lbl = "id"], Frame("parse_ident", "start"))
                  /\ returned' = NoRet
             [] Top.lbl = "id" ->
                  IF returned.p.ok
                  THEN /\ frames' = Push([Top EXCEPT !.lbl = "ws", !.ast = returned.p.ast],
                                         Frame("skip_ws", "loop"))
                       /\ returned' = NoRet
                  ELSE Propagate
             [] Top.lbl = "ws" ->
                  /\ frames' = SetTop([Top EXCEPT !.lbl = "loop"])
                  /\ returned' = NoRet
             [] Top.lbl = "loop" ->
                  IF c = None
                  THEN Return(RetP("parse_call",
                                   PErr("unexpected end of string in call expression", "", scanner)))
                  ELSE /\ c # ")"
                       /\ frames' = Push([Top EXCEPT !.lbl = "arg", !.mark = Offset(scanner)],
                                         ExprFrame)
                       /\ returned' = NoRet
             [] Top.lbl = "arg" ->
                  IF returned.p.ok
                  THEN /\ frames' = SetTop([Top EXCEPT !.lbl = "loop",
                                                       !.args = Append(Top.args, returned.p.ast)])
                       /\ returned' = NoRet
                  ELSE Propagate
    /\ UNCHANGED pc
    /\ Fixed

\* parse_call: the arm Some(')') of its loop, s.next() and the return of
\* the call
CallClose ==
    /\ Running("parsing", "parse_call")
    /\ Top.lbl = "loop"
    /\ Current(scanner) = ")"
    /\ Advance
    /\ Return(RetP("parse_call", POk(Call(Top.ast, Top.args), scanner)))
    /\ UNCHANGED pc
    /\ Fixed

\* the inner loop of parse, lines 125-140: one iteration
LiteralStep ==
    /\ Running("parsing", "literal")
    /\ LET c == Current(scanner)
       IN  IF c = None \/ c = "#"
           THEN Stay /\ Return(RetP("literal", POk(Str(Top.acc), scanner)))
           ELSE /\ Advance
                /\ frames' = SetTop([Top EXCEPT !.acc = Append(Top.acc, c),
                                                !.mark = Offset(scanner)])
                /\ returned' = returned
    /\ UNCHANGED pc
    /\ Fixed

\* the outer loop of parse, lines 112-143: the head of an iteration, up to
\* the call of parse_expr or the inner loop
ParseStep ==
    /\ Running("parsing", "parse")
    /\ ~returned.set
    /\ LET c == Current(scanner)
       IN  IF c = None
           THEN Stay /\ Return(RetP("parse", POk(Top.ast, scanner)))
           ELSE /\ Advance
                /\ returned' = NoRet
                /\ frames' =
                     Push([Top EXCEPT !.mark = Offset(scanner)],
                          IF c = "#"
                          THEN [Frame("parse_expr", "start") EXCEPT !.start = Offset(ScannerNext(scanner))]
                          ELSE [Frame("literal", "loop") EXCEPT !.acc = <<c>>])
    /\ UNCHANGED pc
    /\ Fixed

\* the outer loop of parse: the end of an iteration, ret = Ast::Seq(ret, a)
\* with the expression (try!) or the literal run
ParseTake ==
    /\ Running("parsing", "parse")
    /\ returned.set
    /\ Stay
    /\ IF returned.p.ok
       THEN /\ frames' = SetTop([Top EXCEPT !.ast = Seq2(Top.ast, returned.p.ast)])
            /\ returned' = NoRet
       ELSE Propagate
    /\ UNCHANGED pc
    /\ Fixed

\* a call of self.eval(a)
EvalFrame(a) == [Frame("eval", "start") EXCEPT !.ast = a]

\* the match on template::parse(txt), lib.rs 94-102: self.eval(ast) is
\* called, or the Err is returned
ParseDone ==
    /\ pc = "parsing"
    /\ frames = <<>>
    /\ parsed' = returned.p
    /\ IF returned.p.ok
       THEN /\ pc' = "evaluating"
            /\ frames' = <<EvalFrame(returned.p.ast)>>
            /\ res' = res
       ELSE /\ pc' = "done"
            /\ frames' = frames
            /\ res' = SParseErr(returned.p)
    /\ returned' = NoRet
    /\ Stay
    /\ UNCHANGED <<txt, world, prev, calls, ctx>>

EvalFixed == Stay /\ UNCHANGED pc /\ Fixed

\* eval: the arms Ast::Empty, Ast::Chr, Ast::Str and Ast::Id
EvalLeaf ==
    /\ Running("evaluating", "eval")
    /\ Top.ast.tag \in {"Empty", "Chr", "Str", "Id"}
    /\ Return(RetV("eval", IF Top.ast.tag = "Id" THEN eval_id(world, Top.ast.s)
                           ELSE Ok(VStr(Top.ast.s), <<>>)))
    /\ EvalFixed

\* eval: the arm Ast::Seq, lib.rs 158-166
EvalSeq ==
    /\ Running("evaluating", "eval")
    /\ Top.ast.tag = "Seq"
    /\ CASE Top.lbl = "start" ->
              /\ frames' = Push([Top EXCEPT !.lbl = "lhs"], EvalFrame(Top.ast.kids[1]))
              /\ returned' = NoRet
         [] Top.lbl = "lhs" ->
              IF returned.v.ok
              THEN /\ frames' = Push([Top EXCEPT !.lbl = "rhs", !.val = returned.v.val],
                                     EvalFrame(Top.ast.kids[2]))
                   /\ returned' = NoRet
              ELSE Propagate
         [] Top.lbl = "rhs" ->
              IF returned.v.ok
              THEN Return(RetV("eval", concat(Top.val, returned.v.val, <<>>)))
              ELSE Propagate
    /\ EvalFixed

\* eval: the arm Ast::Call, lib.rs 167-188
EvalCall ==
    /\ Running("evaluating", "eval")
    /\ Top.ast.tag = "Call"
    /\ LET args == Args(Top.ast)
           acnt == Len(args)
           fun == returned.v.val
       IN  CASE Top.lbl = "start" ->
                  /\ frames' = Push([Top EXCEPT !.lbl = "fun"], EvalFrame(Callee(Top.ast)))
                  /\ returned' = NoRet
             [] Top.lbl = "fun" ->
                  IF ~returned.v.ok THEN Propagate
                  ELSE IF fun.tag # "Fun"
                  THEN Return(RetV("eval", Err(Error("non-function in function position"), <<>>)))
                  ELSE IF TooFew(fun, acnt)
                  THEN Return(RetV("eval",
                          Err([Error("function {} requires at least {} arguments, got {}")
                                  EXCEPT !.name = fun.name, !.bound = fun.min_args,
                                         !.cnt = acnt], <<>>)))
                  ELSE IF TooMany(fun, acnt)
                  THEN Return(RetV("eval",
                          Err([Error("function {} requires at most {} arguments, got {}")
                                  EXCEPT !.name = fun.name, !.bound = fun.max_args,
                                         !.cnt = acnt], <<>>)))
                  ELSE IF IsSpecial(fun)
                  THEN /\ frames' =
                            Push([Top EXCEPT !.lbl = "apply", !.val = fun],
                                 [Frame("apply", "start") EXCEPT
                                     !.val = fun,
                                     !.vals = [i \in DOMAIN args |-> VExpr(args[i])]])
                       /\ returned' = NoRet
                  ELSE /\ frames' = Push([Top EXCEPT !.lbl = "args", !.val = fun],
                                         [Frame("eval_list", "loop") EXCEPT !.args = args])
                       /\ returned' = NoRet
             [] Top.lbl = "args" ->
                  IF returned.v.ok
                  THEN /\ frames' =
                            Push([Top EXCEPT !.lbl = "apply"],
                                 [Frame("apply", "start") EXCEPT
                                     !.val = Top.val, !.vals = returned.vals])
                       /\ returned' = NoRet
                  ELSE Propagate
             [] Top.lbl = "apply" ->
                  Return([returned EXCEPT !.fn = "eval"])
    /\ EvalFixed

\* eval_list: one iteration of its loop, up to the call of eval and from
\* its return (try!) to res.push(ar)
EvalListStep ==
    /\ Running("evaluating", "eval_list")
    /\ IF Top.lbl = "loop"
       THEN IF Top.args = <<>>
            THEN Return([RetV("eval_list", Ok(NoVal, <<>>)) EXCEPT !.vals = Top.vals])
            ELSE /\ frames' = Push([Top EXCEPT !.lbl = "item", !.args = Tail(Top.args)],
                                   EvalFrame(Head(Top.args)))
                 /\ returned' = NoRet
       ELSE IF returned.v.ok
            THEN /\ frames' = SetTop([Top EXCEPT !.lbl = "loop",
                                                 !.vals = Append(Top.vals, returned.v.val)])
                 /\ returned' = NoRet
            ELSE Propagate
    /\ EvalFixed

\* apply: the arm Function::If, lib.rs 197-216
ApplyIf ==
    /\ Running("evaluating", "apply")
    /\ Top.val.tag = "Fun" /\ Top.val.fun = "If"
    /\ CASE Top.lbl = "start" ->
              IF Top.vals[1].tag = "Expr"
              THEN /\ frames' = Push([Top EXCEPT !.lbl = "cond"], EvalFrame(Top.vals[1].ast))
                   /\ returned' = NoRet
              ELSE Return(RetV("apply",
                      Err(Error("internal error, if condition already evaluated"), <<>>)))
         [] Top.lbl = "cond" ->
              IF ~returned.v.ok THEN Propagate
              ELSE IF returned.v.val.tag = "Bool"
              THEN LET e == IF returned.v.val.b THEN Top.vals[2] ELSE Top.vals[3]
                   IN  IF e.tag = "Expr"
                       THEN /\ frames' = Push([Top EXCEPT !.lbl = "branch"], EvalFrame(e.ast))
                            /\ returned' = NoRet
                       ELSE Return(RetV("apply",
                               Err(Error("internal error, if expression already evaluated"),
                                   <<>>)))
              ELSE Return(RetV("apply",
                      Err(Error("if expects boolean expression as first argument"), <<>>)))
         [] Top.lbl = "branch" ->
              Return([returned EXCEPT !.fn = "apply"])
    /\ EvalFixed

\* apply: the arms Function::Closed and Function::Locked, and the arm of a
\* value that is no function
ApplyAttr ==
    /\ Running("evaluating", "apply")
    /\ ~(Top.val.tag = "Fun" /\ Top.val.fun = "If")
    /\ Return(RetV("apply", apply(world, Top.val, Top.vals)))
    /\ EvalFixed

\* the match on self.eval(ast), lib.rs 96-100
EvalDone ==
    /\ pc = "evaluating"
    /\ frames = <<>>
    /\ res' = IF ~returned.v.ok THEN SEvalErr(returned.v.err)
              ELSE IF returned.v.val.tag = "Str" THEN SOk(returned.v.val.s)
              ELSE SEvalErr([Error("invalid value: ") EXCEPT !.val = returned.v.val])
    /\ pc' = "done"
    /\ returned' = NoRet
    /\ frames' = frames
    /\ Stay
    /\ UNCHANGED <<txt, world, parsed, prev, calls, ctx>>

StepNext ==
    \/ StartParse
    \/ SkipWsStep
    \/ IdentStep
    \/ StringStep
    \/ ExprStep
    \/ CallStep
    \/ CallClose
    \/ LiteralStep
    \/ ParseStep
    \/ ParseTake
    \/ ParseDone
    \/ EvalLeaf
    \/ EvalSeq
    \/ EvalCall
    \/ EvalListStep
    \/ ApplyIf
    \/ ApplyAttr
    \/ EvalDone

\* the texts of the step-by-step runs: free-form texts, templates, and
\* calls of every callee with up to as many arguments as a builtin takes
StepArgs == {Id(W_ab), Str(W_y), Call(Id(W_closed), <<Id(W_ab)>>)}

StepCalls == {Call(f, args) : f \in Callees, args \in SeqsUpTo(StepArgs, MaxBuiltinArity)}

StepCallTexts == {Input(WriteSegs(<<Expr(e)>>)) : e \in StepCalls}

StepTexts == SoupTexts \cup TemplateTexts \cup StepCallTexts

StepInit ==
    /\ \E in \in StepTexts :
          /\ txt = in.txt
          /\ ctx = in.ctx
          /\ \/ world = ExampleWorld
             \/ in \in StepCallTexts /\ world \in BaseWorlds
    /\ pc = "start"
    /\ parsed = NoParse
    /\ res = NoRes
    /\ prev = NoRes
    /\ calls = 1
    /\ Idle

\* eval_str runs in the thread of its caller, which goes on to the next
\* step as long as there is one
StepSpec == StepInit /\ [][StepNext]_vars /\ WF_vars(StepNext)

\* the step-by-step run returns what eval_str returns
StepsAgree == pc = "done" => res = eval_str(world, txt)

(***************************************************************************)
(* The scanner alone: Scanner::new on a text, then calls of next, also     *)
(* past the end of the input.  nexts counts the calls.                     *)
(***************************************************************************)
ScanInit ==
    /\ \E in \in SoupTexts \cup TemplateTexts : txt = in.txt /\ ctx = in.ctx
    /\ world = ExampleWorld
    /\ pc = "scan"
    /\ parsed = NoParse
    /\ res = NoRes
    /\ prev = NoRes
    /\ calls = 1
    /\ scanner = ScannerNew(txt)
    /\ nexts = 0
    /\ frames = <<>>
    /\ returned = NoRet

\* s.next()
CallNext ==
    /\ pc = "scan"
    /\ nexts < Len(txt) + MaxPast
    /\ Advance
    /\ UNCHANGED <<pc, frames, returned>>
    /\ Fixed

ScanSpec == ScanInit /\ [][CallNext]_vars

(***************************************************************************)
(* Helpers of the properties                                               *)
(***************************************************************************)
RECURSIVE SubTerms(_)
SubTerms(a) == {a} \cup UNION {SubTerms(a.kids[i]) : i \in DOMAIN a.kids}

\* the segments s1..sn of a chain Seq(...Seq(Seq(Empty, s1), s2)..., sn)
RECURSIVE SegList(_)
SegList(a) == IF a.tag = "Seq" THEN Append(SegList(a.kids[1]), a.kids[2]) ELSE <<>>

HasSigil(t) == \E i \in DOMAIN t : t[i] = "#"

\* parse has returned an Ast
Parsed == pc # "start" /\ parsed.ok

\* the calls of the builtin with the given name in the parsed template
CallsOf(name) ==
    {n \in SubTerms(parsed.ast) : n.tag = "Call" /\ Callee(n) = Id(name)}

(***************************************************************************)
(* C1: a text without '#' (the empty text included) renders, in every      *)
(* world, to exactly itself.                                               *)
(***************************************************************************)
C1_PlainTextRendersAsItself ==
    (pc = "done" /\ ~HasSigil(txt)) => (res.ok /\ res.s = txt)

C1_Witness ==
    /\ pc = "done"
    /\ ~HasSigil(txt)
    /\ Len(txt) >= 3
    /\ \E i \in DOMAIN txt : txt[i] = "("
    /\ Len(world.entities) = 1
    /\ res.ok

(***************************************************************************)
(* C2: a call of `if` with three arguments evaluates the callee and then   *)
(* the condition (argument 0).  When the condition reduces to a bool it    *)
(* then evaluates exactly the selected branch (argument 1 on true,         *)
(* argument 2 on false) and returns what that branch returns; the other    *)
(* branch is not evaluated, so its failing does not matter.  When the      *)
(* condition fails or reduces to another value no branch is evaluated.     *)
(***************************************************************************)
IfSelected(n, cond) == IF cond.ok /\ cond.val.b THEN Args(n)[2] ELSE Args(n)[3]

IfUnselected(n, cond) == IF cond.ok /\ cond.val.b THEN Args(n)[3] ELSE Args(n)[2]

C2_IfEvaluatesOnlySelectedBranch ==
    Parsed =>
        \A n \in CallsOf(W_if) :
            Len(Args(n)) = 3 =>
                LET cond == eval(world, Args(n)[1])
                    sel == eval(world, IfSelected(n, cond))
                    r == eval(world, n)
                IN  IF cond.ok /\ cond.val.tag = "Bool"
                    THEN /\ r.ok = sel.ok
                         /\ r.val = sel.val
                         /\ r.err = sel.err
                         /\ r.log = <<n, Callee(n)>> \o cond.log \o sel.log
                    ELSE /\ ~r.ok
                         /\ r.log = <<n, Callee(n)>> \o cond.log

C2_Witness ==
    /\ pc = "done"
    /\ parsed.ok
    /\ res.ok
    /\ \E n \in CallsOf(W_if) :
          /\ Len(Args(n)) = 3
          /\ LET cond == eval(world, Args(n)[1])
             IN  /\ cond.ok /\ cond.val.tag = "Bool"
                 /\ ~eval(world, IfUnselected(n, cond)).ok
                 /\ eval(world, n).ok

(***************************************************************************)
(* C3 as stated: a template that parses and whose single expression        *)
(* reduces to a value that is not a string fails to render with a message  *)
(* beginning "invalid value".                                              *)
(***************************************************************************)
SingleNonString ==
    /\ pc = "done"
    /\ parsed.ok
    /\ Len(SegList(parsed.ast)) = 1
    /\ LET v == eval(world, SegList(parsed.ast)[1])
       IN  v.ok /\ v.val.tag # "Str"

FirstNonStringIsValue ==
    \E i \in DOMAIN SegList(parsed.ast) :
        /\ LET v == eval(world, SegList(parsed.ast)[i])
           IN  v.ok /\ v.val.tag # "Str"
        /\ \A j \in 1..(i - 1) :
              LET u == eval(world, SegList(parsed.ast)[j])
              IN  u.ok /\ u.val.tag = "Str"

IsBuiltinName(s) == s \in {W_if, W_closed, W_locked}

FirstMatch(w, name) ==
    IF \E i \in DOMAIN w.entities : w.entities[i].name = name
    THEN w.entities[CHOOSE i \in DOMAIN w.entities :
            /\ w.entities[i].name = name
            /\ \A j \in 1..(i - 1) : w.entities[j].name # name].id
    ELSE NoId

C4_Original ==
    Parsed =>
        \A n \in SubTerms(parsed.ast) :
            (n.tag = "Id" /\ ~IsBuiltinName(n.s)) =>
                LET r == eval(world, n)
                    first == FirstMatch(world, from_script_name(n.s))
                IN  IF first = NoId
                    THEN ~r.ok /\ r.err.msg = "undefined identifier: " /\ r.err.tok = n.s
                    ELSE r.ok /\ r.val = VReference(first)

(***************************************************************************)
(* C5: `closed` (`locked`) applied to one argument that reduces to an      *)
(* entity reference returns the payload of the first Closable (Lockable)   *)
(* attribute of that entity's attribute list, whatever other attributes    *)
(* the list holds, and false when it holds none; applied to an argument    *)
(* that reduces to any other value it fails.                               *)
(***************************************************************************)
EntityById(w, id) == w.entities[CHOOSE i \in DOMAIN w.entities : w.entities[i].id = id]

RECURSIVE FirstPayload(_, _)
FirstPayload(attrs, kind) ==
    IF attrs = <<>> THEN FALSE
    ELSE IF Head(attrs).kind = kind THEN Head(attrs).b
    ELSE FirstPayload(Tail(attrs), kind)

AttrBuiltins ==
    {[word |-> W_closed, kind |-> "Closable",
      msg |-> "function closed requires a name of an entity"],
     [word |-> W_locked, kind |-> "Lockable",
      msg |-> "function locked requires a name of an entity"]}

C5_ClosedLockedReadFirstAttribute ==
    Parsed =>
        \A f \in AttrBuiltins : \A n \in CallsOf(f.word) :
            Len(Args(n)) = 1 =>
                LET a == eval(world, Args(n)[1])
                    r == eval(world, n)
                IN  a.ok =>
                        IF a.val.tag = "Reference"
                        THEN /\ r.ok
                             /\ r.val = VBool(FirstPayload(
                                    EntityById(world, a.val.id).attributes, f.kind))
                        ELSE ~r.ok /\ r.err.msg = f.msg

C5_Witness ==
    /\ pc = "done"
    /\ parsed.ok
    /\ \E n \in CallsOf(W_closed) :
          /\ Len(Args(n)) = 1
          /\ LET a == eval(world, Args(n)[1])
             IN  /\ a.ok /\ a.val.tag = "Reference"
                 /\ EntityById(world, a.val.id).attributes =
                        <<Attribute("Closable", FALSE), Attribute("Closable", TRUE)>>
                 /\ eval(world, n).val = VBool(FALSE)

(***************************************************************************)
(* C6: a call whose callee reduces to a builtin function and that has      *)
(* fewer arguments than the function's minimum (more than its maximum)     *)
(* fails with the error naming the function, the minimum (maximum) and the *)
(* argument count; `if` takes exactly 3 arguments, `closed` and `locked`   *)
(* exactly 1.  No argument is evaluated before: eval is called on the call *)
(* and its callee only.                                                    *)
(***************************************************************************)
ArityOf(name) == IF name = "if" THEN 3 ELSE 1

C6_ArityCheckedBeforeArguments ==
    Parsed =>
        \A n \in SubTerms(parsed.ast) :
            n.tag = "Call" =>
                LET f == eval(world, Callee(n))
                    cnt == Len(Args(n))
                    r == eval(world, n)
                IN  (f.ok /\ f.val.tag = "Fun") =>
                        /\ cnt < ArityOf(f.val.name) =>
                              /\ ~r.ok
                              /\ r.err.msg = "function {} requires at least {} arguments, got {}"
                              /\ r.err.name = f.val.name
                              /\ r.err.bound = ArityOf(f.val.name)
                              /\ r.err.cnt = cnt
                              /\ r.log = <<n, Callee(n)>>
                        /\ cnt > ArityOf(f.val.name) =>
                              /\ ~r.ok
                              /\ r.err.msg = "function {} requires at most {} arguments, got {}"
                              /\ r.err.name = f.val.name
                              /\ r.err.bound = ArityOf(f.val.name)
                              /\ r.err.cnt = cnt
                              /\ r.log = <<n, Callee(n)>>

C6_Witness ==
    /\ pc = "done"
    /\ parsed.ok
    /\ res.msg = "function {} requires at most {} arguments, got {}"
    /\ res.err.name = "closed"
    /\ res.err.cnt = 2
    /\ \E n \in CallsOf(W_closed) :
          /\ Len(Args(n)) = 2
          /\ ~eval(world, Args(n)[1]).ok

(***************************************************************************)
(* C7: eval of Seq(l, r), both sides evaluating without error, is the text *)
(* of l followed by the text of r when both reduce to strings, and the     *)
(* error "invalid operand for concatenation" when either reduces to a      *)
(* value of another kind.  l and r range over the sub-terms of the parsed  *)
(* template.                                                               *)
(***************************************************************************)
C7_SeqConcatenatesStringsOnly ==
    pc = "parsed" =>
        \A l \in SubTerms(parsed.ast) : \A r \in SubTerms(parsed.ast) :
            LET lv == eval(world, l)
                rv == eval(world, r)
                sq == eval(world, Seq2(l, r))
            IN  (lv.ok /\ rv.ok) =>
                    IF lv.val.tag = "Str" /\ rv.val.tag = "Str"
                    THEN sq.ok /\ sq.val = VStr(lv.val.s \o rv.val.s)
                    ELSE ~sq.ok /\ sq.err.msg = "invalid operand for concatenation"

C7_Witness ==
    /\ pc = "parsed"
    /\ \E l \in SubTerms(parsed.ast) : \E r \in SubTerms(parsed.ast) :
          /\ eval(world, l).ok /\ eval(world, l).val.tag = "Reference"
          /\ eval(world, r).ok /\ eval(world, r).val.tag = "Str"
          /\ eval(world, r).val.s # <<>>
          /\ eval(world, Seq2(l, r)).err.msg = "invalid operand for concatenation"

LastChar(t) == IF t = <<>> THEN None ELSE t[Len(t)]

\* the text ends inside a string literal
InOpenString == ctx.depth >= 0 /\ ctx.instr

\* the text ends inside a call whose callee is there, outside any string
\* literal
InOpenCall == ctx.depth > 0 /\ ctx.callee /\ ~ctx.instr

(***************************************************************************)
(* C9 as stated: a text that ends inside an unterminated call (callee      *)
(* present) does not parse, the message being "unexpected end of string in *)
(* call expression"; one that ends inside a string literal does not parse, *)
(* the message being "unexpected end of string in string literal".         *)
(***************************************************************************)
C9_Original ==
    pc # "start" =>
        /\ InOpenString =>
              (~parsed.ok /\ parsed.msg = "unexpected end of string in string literal")
        /\ InOpenCall =>
              (~parsed.ok /\ parsed.msg = "unexpected end of string in call expression")

(***************************************************************************)
(* C9 as amended: such a text never parses; the message is "unexpected end *)
(* of string in string literal" inside a string literal, "unexpected end   *)
(* of string in expression" when the text ends in whitespace that follows  *)
(* an argument of the open call, and "unexpected end of string in call     *)
(* expression" otherwise.                                                  *)
(***************************************************************************)
C9_UnterminatedNeverParses ==
    pc # "start" =>
        /\ InOpenString =>
              (~parsed.ok /\ parsed.msg = "unexpected end of string in string literal")
        /\ InOpenCall =>
              /\ ~parsed.ok
              /\ parsed.msg = IF IsWs(LastChar(txt)) /\ ctx.nargs > 0
                              THEN "unexpected end of string in expression"
                              ELSE "unexpected end of string in call expression"

C9_Witness ==
    /\ pc = "done"
    /\ InOpenCall
    /\ ctx.depth = 2
    /\ ctx.nargs = 1
    /\ ~IsWs(LastChar(txt))
    /\ res.msg = "unexpected end of string in call expression"

(***************************************************************************)
(* C10 as stated: a text that ends while an identifier is being scanned    *)
(* (a bare identifier after the last '#', or an identifier inside a call)  *)
(* does not parse.                                                         *)
(***************************************************************************)
EndsInBareIdent(t) ==
    \E i \in DOMAIN t :
        /\ t[i] = "#"
        /\ i < Len(t)
        /\ IsIdentStart(t[i + 1])
        /\ \A j \in (i + 2)..Len(t) : IsIdentPart(t[j])

\* the characters after the last '#'
RECURSIVE AfterLastSigil(_)
AfterLastSigil(t) ==
    IF t = <<>> \/ t[Len(t)] = "#" THEN <<>>
    ELSE Append(AfterLastSigil(SubSeq(t, 1, Len(t) - 1)), t[Len(t)])

TopLevelIdentAtEnd == ctx.depth = 0 /\ ~ctx.instr /\ EndsInBareIdent(txt)

InCallIdentAtEnd == ctx.depth > 0 /\ ~ctx.instr /\ IsIdentPart(LastChar(txt))

C10_Original ==
    (pc # "start" /\ (TopLevelIdentAtEnd \/ InCallIdentAtEnd)) => ~parsed.ok

(***************************************************************************)
(* C10 as amended: the end of the input ends an identifier like any other  *)
(* character that is not part of it.  A template whose last expression is  *)
(* a bare identifier running up to the end of the input parses, that       *)
(* identifier being its last segment; inside a call the identifier is      *)
(* taken too and the call then fails with "unexpected end of string in     *)
(* call expression".                                                       *)
(***************************************************************************)
C10_IdentifierEndsAtEndOfInput ==
    pc # "start" =>
        /\ TopLevelIdentAtEnd =>
              /\ parsed.ok
              /\ SegList(parsed.ast) # <<>>
              /\ SegList(parsed.ast)[Len(SegList(parsed.ast))] = Id(AfterLastSigil(txt))
        /\ InCallIdentAtEnd =>
              /\ ~parsed.ok
              /\ parsed.msg = "unexpected end of string in call expression"

C10_Witness ==
    /\ pc = "done"
    /\ TopLevelIdentAtEnd
    /\ Len(txt) >= 6
    /\ parsed.ok
    /\ Len(SegList(parsed.ast)) = 2
    /\ SegList(parsed.ast)[2] = Id(W_ab)

(***************************************************************************)
(* C11: rendering terminates.  In the step-by-step run of eval_str on any  *)
(* text and world: a loop of the parser (parse, its inner loop,            *)
(* parse_call, parse_string, parse_ident, skip_ws) that begins another     *)
(* iteration has moved the scanner on since the iteration before began; a  *)
(* parse_expr that returns Ok has moved the scanner on since it was        *)
(* entered; every running call of eval is on a strict sub-term of the Ast  *)
(* of the call of eval around it; and the run comes to its end with a      *)
(* result, the string or the error.                                        *)
(***************************************************************************)
IterationAdvances ==
    (pc = "parsing" /\ frames # <<>> /\ ~returned.set
        /\ Top.lbl = "loop" /\ Top.mark >= 0)
    => Offset(scanner) > Top.mark

ExprConsumes ==
    (returned.set /\ returned.fn = "parse_expr" /\ returned.p.ok)
    => Offset(scanner) > returned.start

IsEvalFrame(f) == f.fn = "eval"

\* the Asts of the running calls of eval, the outermost first
EvalAsts == LET fs == SelectSeq(frames, IsEvalFrame) IN [i \in DOMAIN fs |-> fs[i].ast]

EvalOnSubTerms ==
    \A i \in 2..Len(EvalAsts) :
        EvalAsts[i] \in SubTerms(EvalAsts[i - 1]) \ {EvalAsts[i - 1]}

C11_RenderingTerminates ==
    /\ [](IterationAdvances /\ ExprConsumes /\ EvalOnSubTerms)
    /\ <>(pc = "done" /\ res.phase # "none")

C11_Witness ==
    /\ pc = "done"
    /\ res.ok
    /\ nexts = Len(txt)
    /\ Len(SegList(parsed.ast)) = 2
    /\ \E n \in SubTerms(parsed.ast) :
          n.tag = "Call" /\ \E i \in DOMAIN Args(n) : Args(n)[i].tag = "Call"

(***************************************************************************)
(* C12: after k calls of next on a scanner made from a text of n           *)
(* characters, current is the k-th character of the text (counted from 0)  *)
(* when k < n and the end of input when k >= n.  So the scanner of the     *)
(* empty text starts at the end of input, and a scanner at the end of      *)
(* input stays there.                                                      *)
(***************************************************************************)
C12_ScannerFollowsText ==
    pc = "scan" =>
        Current(scanner) = IF nexts < Len(txt) THEN txt[nexts + 1] ELSE None

C12_Witness ==
    /\ pc = "scan"
    /\ Len(txt) >= 2
    /\ nexts = Len(txt) + MaxPast
    /\ Current(scanner) = None

(***************************************************************************)
(* C13: evaluation goes from left to right and stops at the first failure. *)
(* In Seq(l, r) eval is called on l and then, when l has not failed, on r; *)
(* when l fails its error is returned and eval is not called on r, when r  *)
(* fails its error is returned.  eval_list calls eval on the arguments in  *)
(* order up to the first that fails and returns its error, or else the     *)
(* values in order.  So a template that parses renders to the error of its *)
(* leftmost failing segment (its own error, or "invalid operand for        *)
(* concatenation" when it reduces to a value that is no string), and to    *)
(* the texts of its segments in order when none fails.  l and r range over *)
(* the sub-terms of the parsed template, the lists over its argument       *)
(* lists.                                                                  *)
(***************************************************************************)
\* the index of the first element of a list of Asts whose eval fails, 0 if
\* there is none
FirstFailing(w, as) ==
    IF \E i \in DOMAIN as : ~eval(w, as[i]).ok
    THEN CHOOSE i \in DOMAIN as :
            /\ ~eval(w, as[i]).ok
            /\ \A j \in 1..(i - 1) : eval(w, as[j]).ok
    ELSE 0

\* the logs of the evals of the first k elements, one after the other
RECURSIVE LogsUpTo(_, _, _)
LogsUpTo(w, as, k) ==
    IF k = 0 THEN <<>> ELSE LogsUpTo(w, as, k - 1) \o eval(w, as[k]).log

SeqLeftToRight(w, l, r) ==
    LET lv == eval(w, l)
        rv == eval(w, r)
        sq == eval(w, Seq2(l, r))
    IN  IF ~lv.ok
        THEN ~sq.ok /\ sq.err = lv.err /\ sq.log = <<Seq2(l, r)>> \o lv.log
        ELSE /\ sq.log = <<Seq2(l, r)>> \o lv.log \o rv.log
             /\ ~rv.ok => (~sq.ok /\ sq.err = rv.err)

ListLeftToRight(w, as) ==
    LET k == FirstFailing(w, as)
        al == eval_list(w, as)
    IN  IF k = 0
        THEN /\ al.ok
             /\ al.vals = [i \in DOMAIN as |-> eval(w, as[i]).val]
             /\ al.log = LogsUpTo(w, as, Len(as))
        ELSE /\ ~al.ok
             /\ al.err = eval(w, as[k]).err
             /\ al.log = LogsUpTo(w, as, k)

\* a segment fails when its eval fails or yields a value that is no string
SegFails(w, g) == LET v == eval(w, g) IN ~v.ok \/ v.val.tag # "Str"

RECURSIVE TextsOf(_, _)
TextsOf(w, gs) ==
    IF gs = <<>> THEN <<>> ELSE eval(w, Head(gs)).val.s \o TextsOf(w, Tail(gs))

LeftmostFailureReported(w, gs, r) ==
    IF \E i \in DOMAIN gs : SegFails(w, gs[i])
    THEN LET i == CHOOSE i \in DOMAIN gs :
                    SegFails(w, gs[i]) /\ \A j \in 1..(i - 1) : ~SegFails(w, gs[j])
             v == eval(w, gs[i])
         IN  /\ ~r.ok
             /\ r.phase = "eval"
             /\ IF v.ok THEN r.msg = "invalid operand for concatenation"
                ELSE r.err = v.err
    ELSE r.ok /\ r.s = TextsOf(w, gs)

C13_LeftToRightFirstFailure ==
    /\ pc = "parsed" =>
          /\ \A l \in SubTerms(parsed.ast) : \A r \in SubTerms(parsed.ast) :
                SeqLeftToRight(world, l, r)
          /\ \A n \in SubTerms(parsed.ast) :
                n.tag = "Call" => ListLeftToRight(world, Args(n))
    /\ (pc = "done" /\ parsed.ok) =>
          LeftmostFailureReported(world, SegList(parsed.ast), res)

C13_Witness ==
    /\ pc = "done"
    /\ parsed.ok
    /\ Len(SegList(parsed.ast)) = 2
    /\ ~eval(world, SegList(parsed.ast)[1]).ok
    /\ SegFails(world, SegList(parsed.ast)[2])
    /\ eval(world, SegList(parsed.ast)[2]).ok
    /\ res.msg = "undefined identifier: "

(***************************************************************************)
(* C14: the Ast of a text that parses is Empty when the text is empty and  *)
(* otherwise the chain Seq(...Seq(Seq(Empty, s1), s2)..., sn), n >= 1, of  *)
(* the segments of the text in the order of the text: a literal segment is *)
(* a run of characters without '#' that ends only at a '#' or at the end   *)
(* of the text, an expression segment is the expression read after a '#'.  *)
(* Two readings of "the segments of the text" are checked: the segments    *)
(* cut out of the text by position (RefSegs), for every text, and the      *)
(* segments a template was written out from, literal segments that touch   *)
(* being one (Merge), for the generated templates.                         *)
(***************************************************************************)
RECURSIVE IsChain(_)
IsChain(a) ==
    \/ a = Empty
    \/ a.tag = "Seq" /\ Len(a.kids) = 2 /\ IsChain(a.kids[1])

\* a scanner on text t whose current character is t[i]
ScannerAt(t, i) ==
    IF i <= Len(t) THEN [chars |-> t, pos |-> i, current |-> t[i]]
    ELSE [chars |-> t, pos |-> Len(t), current |-> None]

\* the least position from i on that holds a '#', or the one after the end
RunEnd(t, i) ==
    CHOOSE j \in i..(Len(t) + 1) :
        /\ j = Len(t) + 1 \/ t[j] = "#"
        /\ \A k \in i..(j - 1) : t[k] # "#"

\* the segments of t from position i on; the text parses
RECURSIVE RefSegs(_, _)
RefSegs(t, i) ==
    IF i > Len(t) THEN <<>>
    ELSE IF t[i] = "#"
    THEN LET a == parse_expr(ScannerAt(t, i + 1))
         IN  <<a.ast>> \o RefSegs(t, Offset(a.s) + 1)
    ELSE <<Str(SubSeq(t, i, RunEnd(t, i) - 1))>> \o RefSegs(t, RunEnd(t, i))

\* the segments of a list of generated segments as the text shows them:
\* literal segments that touch are one
RECURSIVE Merge(_)
Merge(gs) ==
    IF gs = <<>> THEN <<>>
    ELSE IF Len(gs) >= 2 /\ gs[1].lit /\ gs[2].lit
    THEN Merge(<<Lit(gs[1].e.s \o gs[2].e.s)>> \o SubSeq(gs, 3, Len(gs)))
    ELSE <<gs[1].e>> \o Merge(Tail(gs))

\* no identifier runs into the literal text after it
Separated(gs) ==
    \A i \in 1..(Len(gs) - 1) :
        ~(~gs[i].lit /\ gs[i].e.tag = "Id" /\ gs[i + 1].lit
            /\ IsIdentPart(gs[i + 1].e.s[1]))

TemplateTable ==
    {[txt |-> Chars(WriteSegs(gs)), segs |-> Merge(gs)] :
        gs \in {g \in SeqsUpTo(Segs, MaxSegs) : Separated(g)}}

C14_AstIsChainOfSegments ==
    Parsed =>
        /\ IsChain(parsed.ast)
        /\ (txt = <<>>) <=> (parsed.ast = Empty)
        /\ SegList(parsed.ast) = RefSegs(txt, 1)
        /\ \A e \in TemplateTable : e.txt = txt => SegList(parsed.ast) = e.segs

C14_Witness ==
    /\ Parsed
    /\ Len(SegList(parsed.ast)) = 2
    /\ SegList(parsed.ast)[1] = Str(W_y)
    /\ SegList(parsed.ast)[2] = Str(<<" ">>)
    /\ \E e \in TemplateTable : e.txt = txt

(***************************************************************************)
(* C15: in the step-by-step run of eval on any Ast that parse yields, in   *)
(* any world: no call of eval, apply or eval_list returns a deferred       *)
(* expression (Value::Expr); a deferred expression is held only in the     *)
(* argument list of a call of apply for `if`, all three arguments of which *)
(* are deferred; apply is called with a function only, and for `closed`    *)
(* and `locked` with no deferred argument.  So apply returns neither of    *)
(* its internal errors nor "non-function in function position" (eval has   *)
(* an arm of its own with that message, which is returned).                *)
(***************************************************************************)
IsDeferred(v) == v.tag = "Expr"

NoneDeferred(vs) == \A i \in DOMAIN vs : ~IsDeferred(vs[i])

InternalErrors ==
    {"internal error, if condition already evaluated",
     "internal error, if expression already evaluated"}

NoDeferredReturned ==
    returned.set =>
        /\ ~IsDeferred(returned.v.val)
        /\ NoneDeferred(returned.vals)

DeferredOnlyForIf ==
    \A i \in DOMAIN frames :
        LET f == frames[i]
        IN  /\ ~IsDeferred(f.val)
            /\ IF f.fn = "apply"
               THEN /\ f.val.tag = "Fun"
                    /\ IF f.val.fun = "If"
                       THEN Len(f.vals) = 3 /\ \A k \in 1..3 : IsDeferred(f.vals[k])
                       ELSE NoneDeferred(f.vals)
               ELSE NoneDeferred(f.vals)

ApplyArmsUnreached ==
    /\ returned.set =>
          /\ returned.v.err.msg \notin InternalErrors
          /\ returned.fn = "apply" =>
                returned.v.err.msg # "non-function in function position"
    /\ res.msg \notin InternalErrors

C15_NoDeferredValueEscapes ==
    NoDeferredReturned /\ DeferredOnlyForIf /\ ApplyArmsUnreached

C15_Witness ==
    /\ pc = "evaluating"
    /\ frames # <<>>
    /\ Top.fn = "apply"
    /\ Top.val.fun = "Closed"
    /\ Len(Top.vals) = 1
    /\ Top.vals[1].tag = "Reference"
    /\ \E i \in DOMAIN frames :
          /\ frames[i].fn = "apply"
          /\ frames[i].val.fun = "If"
          /\ frames[i].lbl = "branch"

(***************************************************************************)
(* C16: in a call, whitespace (space, tab, CR, LF) between '(' and the     *)
(* callee, between the callee and the first argument or ')', and before    *)
(* each argument is skipped: the call parses to the Ast it has without the *)
(* whitespace.  Whitespace between the last argument and ')' is not: the   *)
(* call does not parse, the error being "unexpected character in           *)
(* expression: )".  A call without arguments parses with whitespace before *)
(* ')' too.                                                                *)
(***************************************************************************)
C16_WhitespaceInCalls ==
    pc # "start" =>
        \A e \in WsTable :
            e.txt = txt =>
                IF e.trail # <<>> /\ Args(e.call) # <<>>
                THEN /\ ~parsed.ok
                     /\ parsed.msg = "unexpected character in expression: "
                     /\ parsed.ch = ")"
                ELSE /\ parsed.ok
                     /\ parsed.ast = Seq2(Empty, e.call)

C16_Witness ==
    /\ pc = "done"
    /\ \E e \in WsTable :
          /\ e.txt = txt
          /\ e.lead # <<>>
          /\ e.trail = <<"\t">>
          /\ Len(Args(e.call)) = 2
    /\ parsed.msg = "unexpected character in expression: "
    /\ parsed.ch = ")"

=============================================================================
